---- MODULE Spec2Model ----
(***************************************************************************)
(* Model of 1_chunking.py: process_image_with_captions (one forward pass   *)
(* over the parsed document elements, pairing each Image with the          *)
(* FigureCaption that follows it, optionally asking the remote model for a *)
(* description, collecting per-image errors) and the credential check of   *)
(* process_tables_with_descriptions.                                       *)
(*                                                                         *)
(* Python values: None is the string None below, distinct from every text  *)
(* of the input sets.  idx keeps Python's 0-based value, so the element    *)
(* under idx is raw_chunks[idx + 1] here.  The two diagnostic print calls  *)
(* change no state the function returns and are not modelled.              *)
(***************************************************************************)
EXTENDS Integers, Sequences, FiniteSets

\* Longest input sequence explored.
MaxLen == 3

None == "<None>"

NoCaption == "No caption available"

ErrorMessage == "Error generating description with Gemini."

\* Texts response.text can hold, and messages the remote call can raise with.
RemoteTexts == {"description A", "description B"}
RemoteErrors == {"remote call failed"}

\* os.getenv("GEMINI_API_KEY"): unset, empty, or set.
ApiKeys == {None, "", "key"}

(***************************************************************************)
(* Document elements.  hasText / hasMeta say whether the object carries    *)
(* the attribute at all (what hasattr answers); image_base64 and filename  *)
(* live on the metadata and are None when the metadata does not set them.  *)
(***************************************************************************)
Elem(k, ht, t, hm, b, f) ==
    [kind |-> k, hasText |-> ht, text |-> t, hasMeta |-> hm,
     image_base64 |-> b, filename |-> f]

Elements ==
    { Elem("Image", TRUE, "fig1", TRUE, "AAAA", "doc.pdf"),
      Elem("Image", FALSE, None, TRUE, "AA==", "doc.pdf"),
      Elem("Image", TRUE, "", TRUE, None, None),
      Elem("Image", TRUE, "fig2", TRUE, "AAA", "doc.pdf"),
      Elem("Image", TRUE, "fig3", FALSE, None, None),
      Elem("FigureCaption", TRUE, "Figure 1: architecture", TRUE, None, "doc.pdf"),
      Elem("FigureCaption", TRUE, "Figure 2: pipeline", TRUE, None, "doc.pdf"),
      Elem("Table", TRUE, "t", TRUE, "AAAA", "doc.pdf"),
      Elem("Other", TRUE, "para", TRUE, None, "doc.pdf") }

SeqsUpTo(n) == UNION { [1..k -> Elements] : k \in 0..n }

VARIABLES
    fn,                 \* which function is called: "images" or "tables"
    raw_chunks,         \* argument
    use_gemini,         \* argument
    api_key,            \* environment: GEMINI_API_KEY
    genai_key,          \* key handed to genai.configure, None before
    pc,                 \* position in the function
    exception,          \* the exception that left the function, None if none
    idx,                \* enumerate index (Python value)
    caption,            \* local
    image_data,         \* local
    error_data,         \* local
    response,           \* local: response.text of the last successful call
    processed_images,   \* local, first returned collection
    encountered_errors, \* local, second returned collection
    calls               \* remote side: log of generate_content invocations

vars == <<fn, raw_chunks, use_gemini, api_key, genai_key, pc, exception, idx,
          caption, image_data, error_data, response, processed_images,
          encountered_errors, calls>>

----------------------------------------------------------------------------
\* Pure parts of the loop body.

IsImageOrTable(c) == c.kind \in {"Image", "Table"}

\* isinstance(chunk, Image)
IsImage(c) == c.kind = "Image"

\* isinstance(chunk, FigureCaption)
IsFigureCaption(c) == c.kind = "FigureCaption"

CredentialMissingUnsetOnly(k) == k = None

\* not api_key
CredentialMissing(k) == k \in {None, ""}

CaptionForPrev(chunks, i) ==
    IF i >= 1 /\ IsFigureCaption(chunks[i])
    THEN chunks[i].text
    ELSE NoCaption

\* lines 34-37; i is Python's idx
CaptionFor(chunks, i) ==
    IF (i + 1) < Len(chunks) /\ IsFigureCaption(chunks[i + 2])
    THEN chunks[i + 2].text
    ELSE NoCaption

TextOrEmptyNone(c) == IF c.hasText THEN c.text ELSE None

\* chunk.text if hasattr(chunk, "text") else ""
TextOrEmpty(c) == IF c.hasText THEN c.text ELSE ""

\* chunk.text if hasattr(chunk, 'text') else 'No text'   (prompt)
TextOrNoText(c) == IF c.hasText THEN c.text ELSE "No text"

\* lines 40-47; evaluated only when the chunk has metadata
ImageData(c, cap) ==
    [caption |-> cap,
     image_text |-> TextOrEmpty(c),
     base64_image |-> c.image_base64,
     content |-> TextOrEmpty(c),
     content_type |-> "image",
     filename |-> IF c.hasMeta THEN c.filename ELSE ""]

\* image_data before line 40 has bound it
Unbound == [f \in DOMAIN ImageData(Elem(None, FALSE, None, FALSE, None, None), None) |-> None]

\* lines 49-52
NewErrorData == [error |-> None, error_message |-> None]

\* lines 87-90
FilledErrorData(msg) == [error |-> msg, error_message |-> ErrorMessage]

\* base64.b64decode on the payloads of Elements: the message it raises with,
\* or None when it returns bytes.
B64DecodeError(p) ==
    CASE p = None -> "argument should be a bytes-like object or ASCII string, not 'NoneType'"
      [] p = "AAA" -> "Incorrect padding"
      [] OTHER -> None

\* the bytes base64.b64decode returns
B64Decode(p) ==
    CASE p = "AAAA" -> <<0, 0, 0>>
      [] p = "AA==" -> <<0>>
      [] OTHER -> <<>>

\* line 82
WithDescription(rec, text) == [rec EXCEPT !.content = text]

AfterFailureBlank(rec) == [rec EXCEPT !.content = ""]

\* lines 84-91 leave image_data alone
AfterFailure(rec) == rec

AppendOnlyClean(list, rec) == IF rec.error = None THEN Append(list, rec) ELSE list

\* line 93
AppendProcessed(list, rec) == Append(list, rec)

AppendErrorFresh(list, rec) == Append(list, NewErrorData)

\* line 91
AppendError(list, rec) == Append(list, rec)

Chunk == raw_chunks[idx + 1]

----------------------------------------------------------------------------
Init ==
    /\ fn \in {"images", "tables"}
    /\ raw_chunks \in SeqsUpTo(MaxLen)
    /\ use_gemini \in BOOLEAN
    /\ api_key \in ApiKeys
    /\ genai_key = None
    /\ pc = "call"
    /\ exception = None
    /\ idx = 0
    /\ caption = None
    /\ image_data = Unbound
    /\ error_data = NewErrorData
    /\ response = None
    /\ processed_images = <<>>
    /\ encountered_errors = <<>>
    /\ calls = <<>>

\* lines 21-29 of process_image_with_captions
Configure ==
    /\ pc = "call"
    /\ fn = "images"
    /\ IF use_gemini /\ CredentialMissing(api_key)
       THEN /\ pc' = "raised"
            /\ exception' = "ValueError"
            /\ UNCHANGED genai_key
       ELSE /\ pc' = "loop"
            /\ genai_key' = IF use_gemini THEN api_key ELSE genai_key
            /\ UNCHANGED exception
    /\ UNCHANGED <<fn, raw_chunks, use_gemini, api_key, idx, caption,
                   image_data, error_data, response, processed_images,
                   encountered_errors, calls>>

\* lines 112-116 of process_tables_with_descriptions, then the implicit return
ConfigureTables ==
    /\ pc = "call"
    /\ fn = "tables"
    /\ IF use_gemini /\ CredentialMissing(api_key)
       THEN /\ pc' = "raised"
            /\ exception' = "ValueError"
            /\ UNCHANGED genai_key
       ELSE /\ pc' = "done"
            /\ genai_key' = IF use_gemini THEN api_key ELSE genai_key
            /\ UNCHANGED exception
    /\ UNCHANGED <<fn, raw_chunks, use_gemini, api_key, idx, caption,
                   image_data, error_data, response, processed_images,
                   encountered_errors, calls>>

\* lines 31-32, the element is not an Image
NextChunk ==
    /\ pc = "loop"
    /\ idx < Len(raw_chunks)
    /\ ~IsImage(Chunk)
    /\ idx' = idx + 1
    /\ UNCHANGED <<fn, raw_chunks, use_gemini, api_key, genai_key, pc,
                   exception, caption, image_data, error_data, response,
                   processed_images, encountered_errors, calls>>

\* lines 32-52: caption, image_data, error_data.  Line 43 reads
\* chunk.metadata with no hasattr guard and raises AttributeError when the
\* element has no metadata.
BuildRecord ==
    /\ pc = "loop"
    /\ idx < Len(raw_chunks)
    /\ IsImage(Chunk)
    /\ caption' = CaptionFor(raw_chunks, idx)
    /\ IF Chunk.hasMeta
       THEN /\ image_data' = ImageData(Chunk, caption')
            /\ error_data' = NewErrorData
            /\ pc' = "describe"
            /\ UNCHANGED exception
       ELSE /\ pc' = "raised"
            /\ exception' = "AttributeError"
            /\ UNCHANGED <<image_data, error_data>>
    /\ UNCHANGED <<fn, raw_chunks, use_gemini, api_key, genai_key, idx,
                   response, processed_images, encountered_errors, calls>>

\* line 55, use_gemini false
SkipDescription ==
    /\ pc = "describe"
    /\ ~use_gemini
    /\ pc' = "append"
    /\ UNCHANGED <<fn, raw_chunks, use_gemini, api_key, genai_key, exception,
                   idx, caption, image_data, error_data, response,
                   processed_images, encountered_errors, calls>>

\* lines 57, 84-91: b64decode raises, the remote call is not reached
DecodeFails ==
    /\ pc = "describe"
    /\ use_gemini
    /\ B64DecodeError(Chunk.image_base64) # None
    /\ error_data' = FilledErrorData(B64DecodeError(Chunk.image_base64))
    /\ encountered_errors' = AppendError(encountered_errors, error_data')
    /\ image_data' = AfterFailure(image_data)
    /\ pc' = "append"
    /\ UNCHANGED <<fn, raw_chunks, use_gemini, api_key, genai_key, exception,
                   idx, caption, response, processed_images, calls>>

CallEntry(result, value) ==
    [idx |-> idx, caption |-> caption, text |-> TextOrNoText(Chunk),
     data |-> B64Decode(Chunk.image_base64), result |-> result,
     value |-> value]

\* lines 57-82: the call returns and response.text is stored as content
DescribeSucceeds ==
    /\ pc = "describe"
    /\ use_gemini
    /\ B64DecodeError(Chunk.image_base64) = None
    /\ \E text \in RemoteTexts :
         /\ calls' = Append(calls, CallEntry("returned", text))
         /\ response' = text
         /\ image_data' = WithDescription(image_data, text)
    /\ pc' = "append"
    /\ UNCHANGED <<fn, raw_chunks, use_gemini, api_key, genai_key, exception,
                   idx, caption, error_data, processed_images,
                   encountered_errors>>

\* lines 57-80, 84-91: the call (or reading response.text) raises
DescribeFails ==
    /\ pc = "describe"
    /\ use_gemini
    /\ B64DecodeError(Chunk.image_base64) = None
    /\ \E msg \in RemoteErrors :
         /\ calls' = Append(calls, CallEntry("raised", msg))
         /\ error_data' = FilledErrorData(msg)
    /\ encountered_errors' = AppendError(encountered_errors, error_data')
    /\ image_data' = AfterFailure(image_data)
    /\ pc' = "append"
    /\ UNCHANGED <<fn, raw_chunks, use_gemini, api_key, genai_key, exception,
                   idx, caption, response, processed_images>>

\* line 93, then the loop advances
AppendRecord ==
    /\ pc = "append"
    /\ processed_images' = AppendProcessed(processed_images, error_data)
    /\ idx' = idx + 1
    /\ pc' = "loop"
    /\ UNCHANGED <<fn, raw_chunks, use_gemini, api_key, genai_key, exception,
                   caption, image_data, error_data, response,
                   encountered_errors, calls>>

\* lines 95-97
Return ==
    /\ pc = "loop"
    /\ idx = Len(raw_chunks)
    /\ pc' = "done"
    /\ UNCHANGED <<fn, raw_chunks, use_gemini, api_key, genai_key, exception,
                   idx, caption, image_data, error_data, response,
                   processed_images, encountered_errors, calls>>

Next ==
    \/ Configure
    \/ ConfigureTables
    \/ NextChunk
    \/ BuildRecord
    \/ SkipDescription
    \/ DecodeFails
    \/ DescribeSucceeds
    \/ DescribeFails
    \/ AppendRecord
    \/ Return

Spec == Init /\ [][Next]_vars

----------------------------------------------------------------------------
\* Vocabulary of the properties.

RecordFields ==
    {"caption", "image_text", "base64_image", "content", "content_type",
     "filename"}

InBody == fn = "images" /\ pc \in {"describe", "append"}

\* Python indices of the Image elements of the input
ImagePositions ==
    { i \in 0..(Len(raw_chunks) - 1) : raw_chunks[i + 1].kind = "Image" }

ImagesBefore(n) == { i \in ImagePositions : i < n }

HasError(r) == r.error # None

RaisedCallsAt(i) ==
    { k \in DOMAIN calls : calls[k].idx = i /\ calls[k].result = "raised" }

\* the message the image at Python index i failed with, None if it did not
FailureOf(i) ==
    LET c == raw_chunks[i + 1] IN
    IF c.kind # "Image" THEN None
    ELSE IF B64DecodeError(c.image_base64) # None
         THEN B64DecodeError(c.image_base64)
    ELSE IF RaisedCallsAt(i) # {}
         THEN calls[CHOOSE k \in RaisedCallsAt(i) : TRUE].value
    ELSE None

RECURSIVE ErrorsUpTo(_)
ErrorsUpTo(n) ==
    IF n = 0 THEN <<>>
    ELSE IF FailureOf(n - 1) = None THEN ErrorsUpTo(n - 1)
    ELSE Append(ErrorsUpTo(n - 1),
                [error |-> FailureOf(n - 1), error_message |-> ErrorMessage])

----------------------------------------------------------------------------
\* C1: when process_image_with_captions returns, every entry of
\* processed_images carries the six fields of a Processed Image Record and
\* has content_type "image".
C1_ReturnsImageRecords ==
    (fn = "images" /\ pc = "done") =>
        \A k \in DOMAIN processed_images :
            /\ DOMAIN processed_images[k] = RecordFields
            /\ processed_images[k].content_type = "image"

\* C2 as stated: the caption of the record built for the Image at idx is
\* the text of the element at idx+1 when that element exists and is a
\* FigureCaption, and the sentinel "no caption available" otherwise.
C2_CaptionOrLowercaseSentinel ==
    InBody =>
        /\ IsImage(Chunk)
        /\ (idx + 2 <= Len(raw_chunks)
              /\ raw_chunks[idx + 2].kind = "FigureCaption")
             => image_data.caption = raw_chunks[idx + 2].text
        /\ (idx + 2 > Len(raw_chunks)
              \/ raw_chunks[idx + 2].kind # "FigureCaption")
             => image_data.caption = "no caption available"

\* C2 amended: the same, with the sentinel spelled as line 37 spells it,
\* "No caption available"; only the element at idx+1 decides the caption and
\* a FigureCaption before the Image is never used.
C2_CaptionFromNextOnly ==
    InBody =>
        /\ IsImage(Chunk)
        /\ image_data.caption = caption
        /\ (idx + 2 <= Len(raw_chunks)
              /\ raw_chunks[idx + 2].kind = "FigureCaption")
             => image_data.caption = raw_chunks[idx + 2].text
        /\ (idx + 2 > Len(raw_chunks)
              \/ raw_chunks[idx + 2].kind # "FigureCaption")
             => image_data.caption = "No caption available"

\* the first Image took the caption that follows it (as the prompt of its
\* call shows) and the last Image, right after that FigureCaption, took the
\* sentinel
C2_Witness ==
    /\ InBody
    /\ idx = 2
    /\ Len(raw_chunks) = 3
    /\ raw_chunks[2].kind = "FigureCaption"
    /\ calls # <<>>
    /\ calls[1].idx = 0
    /\ calls[1].caption = raw_chunks[2].text
    /\ image_data.caption = "No caption available"

\* C3: with use_gemini false the record's content is the image's own text
\* (empty string when the text is absent), the remote capability is never
\* invoked and the error collection stays empty.
C3_DisabledUsesOwnText ==
    (fn = "images" /\ ~use_gemini) =>
        /\ calls = <<>>
        /\ encountered_errors = <<>>
        /\ InBody =>
             image_data.content =
                 (IF Chunk.hasText THEN Chunk.text ELSE "")

\* a text-less image went through the disabled path after an earlier image
C3_Witness ==
    /\ fn = "images"
    /\ ~use_gemini
    /\ pc = "append"
    /\ ~Chunk.hasText
    /\ image_data.content = ""
    /\ Len(processed_images) >= 1

\* C4: with use_gemini true and a credential present the call returns
\* normally, the error collection holds exactly one Error Record per Image
\* whose decode or remote call raised, in input order, and every Image whose
\* payload decodes has had its remote call attempted.
C4_PartialFailureReturns ==
    (fn = "images" /\ use_gemini /\ api_key = "key") =>
        /\ pc # "raised"
        /\ pc = "done" =>
             /\ encountered_errors = ErrorsUpTo(Len(raw_chunks))
             /\ \A i \in ImagePositions :
                  B64DecodeError(raw_chunks[i + 1].image_base64) = None
                    => \E k \in DOMAIN calls : calls[k].idx = i

\* C5: use_gemini true with GEMINI_API_KEY unset or empty raises the
\* configuration error before any element is examined, in both functions;
\* with use_gemini false the configuration error is never raised.
C5_MissingCredentialFailsFast ==
    /\ (use_gemini /\ api_key \in {None, ""} /\ pc # "call") =>
          /\ pc = "raised"
          /\ exception = "ValueError"
          /\ idx = 0
          /\ caption = None
          /\ image_data = Unbound
          /\ processed_images = <<>>
          /\ encountered_errors = <<>>
          /\ calls = <<>>
          /\ genai_key = None
    /\ exception = "ValueError" => (use_gemini /\ api_key \in {None, ""})

\* the empty credential stopped a call whose input holds an Image
C5_Witness ==
    /\ fn = "images"
    /\ pc = "raised"
    /\ exception = "ValueError"
    /\ api_key = ""
    /\ ImagePositions # {}

\* C6: an Image that lacks optional attributes never makes
\* process_image_with_captions raise; the configuration error is the only
\* exception that leaves the function.
C6_OnlyConfigurationErrorRaised ==
    (fn = "images" /\ pc = "raised") => exception = "ValueError"

\* C7: with use_gemini true, after the description step the record's content
\* is the text the remote call returned when it succeeded and the fallback
\* (own text or empty string) when decoding or the call raised; the other
\* fields are the same in both outcomes.
C7_ContentAfterDescription ==
    (fn = "images" /\ use_gemini /\ pc = "append") =>
        LET fallback == IF Chunk.hasText THEN Chunk.text ELSE "" IN
        /\ error_data.error = None =>
             /\ calls # <<>>
             /\ calls[Len(calls)].idx = idx
             /\ calls[Len(calls)].result = "returned"
             /\ image_data.content = calls[Len(calls)].value
        /\ error_data.error # None => image_data.content = fallback
        /\ image_data.caption = caption
        /\ image_data.image_text = fallback
        /\ image_data.base64_image = Chunk.image_base64
        /\ image_data.content_type = "image"
        /\ image_data.filename = Chunk.filename

\* a failed description left a non-empty fallback in place
C7_Witness ==
    /\ fn = "images"
    /\ use_gemini
    /\ pc = "append"
    /\ error_data.error \in RemoteErrors
    /\ image_data.content = "fig1"
    /\ response \in RemoteTexts

\* C8: the remote capability is invoked at most once per Image, never for
\* another element, in input order and without retry, so the number of calls
\* never exceeds the number of Images.
C8_OneCallPerImage ==
    /\ \A k \in DOMAIN calls : calls[k].idx \in ImagePositions
    /\ \A j, k \in DOMAIN calls : j < k => calls[j].idx < calls[k].idx
    /\ Len(calls) <= Cardinality(ImagesBefore(idx + 1))
    /\ Len(calls) <= Cardinality(ImagePositions)

\* a call that raised was followed by a call for a later image, with a
\* non-Image element in the input
C8_Witness ==
    /\ pc = "done"
    /\ Len(calls) >= 2
    /\ calls[1].result = "raised"
    /\ Cardinality(ImagePositions) < Len(raw_chunks)

\* C9: at return the first collection has exactly one entry per Image of the
\* input (and, at the head of each iteration, one per Image already passed),
\* whatever the outcome of its description, and none for other elements.
C9_OneEntryPerImage ==
    /\ (fn = "images" /\ pc = "loop") =>
          Len(processed_images) = Cardinality(ImagesBefore(idx))
    /\ (fn = "images" /\ pc = "done") =>
          Len(processed_images) = Cardinality(ImagePositions)

\* returned with a failed image, a successful image and a non-Image element
C9_Witness ==
    /\ fn = "images"
    /\ pc = "done"
    /\ Len(raw_chunks) = MaxLen
    /\ Len(processed_images) = 2
    /\ Len(encountered_errors) = 1

Range(s) == { s[k] : k \in DOMAIN s }

RECURSIVE IsSubSeq(_, _)
IsSubSeq(s, t) ==
    IF s = <<>> THEN TRUE
    ELSE IF t = <<>> THEN FALSE
    ELSE IF Head(s) = Head(t) THEN IsSubSeq(Tail(s), Tail(t))
    ELSE IsSubSeq(s, Tail(t))

ErrorFieldsConsistent ==
    /\ \A k \in DOMAIN processed_images :
         \/ processed_images[k] \in Range(encountered_errors)
         \/ /\ processed_images[k].error = None
            /\ processed_images[k].error_message = None
    /\ \A k \in DOMAIN encountered_errors :
         /\ encountered_errors[k].error # None
         /\ encountered_errors[k].error_message # None

\* C10 as stated: at every point of the loop and at return the error
\* collection is an order-preserving sub-sequence of processed_images, so it
\* is never longer, and an entry has error and error_message set exactly
\* when it is in the error collection.
C10_ErrorsSubsequenceEverywhere ==
    /\ IsSubSeq(encountered_errors, processed_images)
    /\ Len(encountered_errors) <= Len(processed_images)
    /\ ErrorFieldsConsistent

\* C10 amended: the same, except between a failing iteration's append to
\* encountered_errors and its append to processed_images, where it holds of
\* the error collection without its last entry.
C10_ErrorsSubsequenceAtBoundaries ==
    /\ ~(pc = "append" /\ HasError(error_data)) =>
          /\ encountered_errors = SelectSeq(processed_images, HasError)
          /\ Len(encountered_errors) <= Len(processed_images)
    /\ (pc = "append" /\ HasError(error_data)) =>
          /\ encountered_errors # <<>>
          /\ encountered_errors[Len(encountered_errors)] = error_data
          /\ SubSeq(encountered_errors, 1, Len(encountered_errors) - 1)
               = SelectSeq(processed_images, HasError)
    /\ ErrorFieldsConsistent

\* returned with an error record between two clean ones
C10_Witness ==
    /\ pc = "done"
    /\ Len(processed_images) = 3
    /\ processed_images[1].error = None
    /\ processed_images[2].error # None
    /\ processed_images[3].error = None
    /\ encountered_errors = <<processed_images[2]>>

====
